---- MODULE Spec2Model ----
(***************************************************************************)
(* Model of scripts/test-image-modification.py: the smoke test that        *)
(* creates a session, sends two messages and polls the artifact list with  *)
(* wait_for_new_artifact.  The script is one blocking thread; the service  *)
(* it talks to is the environment.  The script reads the clock only inside *)
(* wait_for_new_artifact (lines 52, 54, 66), so the discrete clock of the  *)
(* model advances only there: while a poll is in flight and while the      *)
(* probe sleeps.  The other calls and the brief pause of line 109 are      *)
(* blocking points at which the service may act, but their length cannot   *)
(* be observed by the script.                                              *)
(***************************************************************************)
EXTENDS Integers, Sequences, FiniteSets, TLC

\* ---- bounds of the model ----
MaxTimeout == 3      \* timeouts tried for wait_for_new_artifact: 1..MaxTimeout
MaxFetchDur == 1     \* a poll of the probe takes 0..MaxFetchDur time units
MaxOversleep == 1    \* time.sleep(2) takes 2..2+MaxOversleep time units
MaxArtifacts == 2    \* artifacts the service creates during one run

\* ---- program constants ----
PollInterval == 2    \* time.sleep(2) in the polling loop and the brief pause

VARIABLES
  now,            \* the clock read by time.time()
  timeout,        \* the timeout argument of wait_for_new_artifact
  pc,             \* position of the script
  phase,          \* 1: generation phase, 2: modification phase
  http,           \* the HTTP call in flight (the script is blocked in it)
  wake,           \* the instant the current time.sleep ends
  session_id,     \* 0 until create_session returned
  initial_count,  \* test_generation_loop: len(initial_artifacts)
  current_count,  \* test_generation_loop: len(get_artifacts()) of step 2
  artifact1,      \* result of the generation probe
  artifact2,      \* result of the modification probe
  start,          \* wait_for_new_artifact: start
  artifacts,      \* wait_for_new_artifact: the list of the last fetch
  success,        \* return value of test_generation_loop
  exitCode,       \* {} while running, {status} after sys.exit(status)
  out,            \* the kinds of lines printed so far
  store,          \* service: the session's artifacts, newest first
  sessionLive,    \* service: the session exists
  reqs,           \* history: the HTTP requests issued, in order
  resps,          \* history: the outcome the service gave to each request
  polls,          \* history: the successful fetches of the current probe
  done,           \* history: how the current probe returned ("no": it has not)
  retAt,          \* history: the instant the current probe returned
  lastSleep,      \* history: length of the last sleep of the current probe
  baseIds,        \* history: the ids listed by the phase's baseline fetch
  grew            \* history: the store exceeded the baseline before the deadline

vars == <<now, timeout, pc, phase, http, wake, session_id, initial_count,
          current_count, artifact1, artifact2, start, artifacts, success,
          exitCode, out, store, sessionLive, reqs, resps, polls, done,
          retAt, lastSleep, baseIds, grew>>

\* Python's None for an artifact; real artifacts have id >= 1.
None == [id |-> 0, src |-> 0, sends |-> 0]

Outcomes == {"ok", "conn", "http", "other"}

Idle == [state |-> "idle", kind |-> "none", outcome |-> "ok", body |-> <<>>,
         at |-> 0, until |-> 0]

\* ---- pure fragments of the script ----

\* line 54: the loop condition of wait_for_new_artifact, read at instant t
\* (LoopCondInclusive: the off-by-one variant with <=).
LoopCondInclusive(t, st) == t - st <= timeout
LoopCond(t, st) == t - st < timeout

\* line 56: the comparison that decides that a new artifact exists
\* (GrownNonEmpty: the variant that forgets the baseline).
GrownNonEmpty(arts, count) == Len(arts) > 0
Grown(arts, count) == Len(arts) > count

\* line 57: new_artifact = artifacts[0]  (Python index 0 is TLA+ index 1;
\* OldestArtifact: the variant that takes the other end of the list).
OldestArtifact(arts) == arts[Len(arts)]
NewArtifact(arts) == arts[1]

\* lines 23/38/46/75 and the use of the decoded body: the call raises
\* (RaisesOnlyConn: the variant without raise_for_status).
RaisesOnlyConn(outcome) == outcome = "conn"
Raises(outcome) == outcome # "ok"

\* lines 101/121: "if not artifact" (NeverFalsy: the variant without the test).
NeverFalsy(a) == FALSE
Falsy(a) == a = None

\* line 161: sys.exit(0 if success else 1) (ExitAlwaysZero: the variant that
\* ignores the result).
ExitAlwaysZero(ok) == 0
ExitStatus(ok) == IF ok THEN 0 ELSE 1

\* lines 127-134: the lines printed about artifact2's source.
ResultLines(a1, a2) ==
  IF a2.src # 0
    THEN {"linked", IF a2.src = a1.id THEN "source_matches" ELSE "source_differs"}
    ELSE {"no_source"}

\* the baseline count wait_for_new_artifact was called with (lines 100, 120).
Baseline(ph) == IF ph = 1 THEN initial_count ELSE current_count

SleepDurs == PollInterval .. (PollInterval + MaxOversleep)
CallDurs == 0 .. MaxFetchDur

\* ---- building blocks ----

\* requests.get / requests.post: the request leaves and the script blocks.
Issue(kind, site, ph, d) ==
  /\ http' = [state |-> "sent", kind |-> kind, outcome |-> "ok", body |-> <<>>,
              at |-> now, until |-> now + d]
  /\ reqs' = Append(reqs, [kind |-> kind, site |-> site, phase |-> ph])

\* the blocked call comes back to the script at this instant.
Returned(kind) == http.state = "responded" /\ http.kind = kind /\ now = http.until

\* lines 158-170: an exception reaches the handlers of __main__.
Raise(outcome) ==
  /\ out' = out \cup (IF outcome = "conn" THEN {"conn_error"} ELSE {"error", "traceback"})
  /\ exitCode' = {1}
  /\ pc' = "exited"
  /\ http' = Idle

\* ---- the script ----

\* lines 85, 16-22: create_session issues POST /api/sessions.
CreateSessionCall ==
  /\ pc = "create"
  /\ out' = out \cup {"banner", "creating"}
  /\ Issue("create", "create", phase, 0)
  /\ pc' = "create_wait"
  /\ UNCHANGED <<now, timeout, phase, wake, session_id, initial_count, current_count,
                 artifact1, artifact2, start, artifacts, success, exitCode, store,
                 sessionLive, resps, polls, done, retAt, lastSleep, baseIds, grew>>

\* lines 23-26, 86, 89-90: the session is created; the baseline fetch leaves.
CreateSessionReturn ==
  /\ pc = "create_wait" /\ Returned("create")
  /\ IF Raises(http.outcome)
       THEN /\ Raise(http.outcome)
            /\ UNCHANGED <<session_id, reqs>>
       ELSE /\ session_id' = 1
            /\ out' = out \cup {"created", "step1"}
            /\ Issue("list", "baseline", phase, 0)
            /\ pc' = "baseline_wait"
            /\ UNCHANGED exitCode
  /\ UNCHANGED <<now, timeout, phase, wake, initial_count, current_count, artifact1,
                 artifact2, start, artifacts, success, store, sessionLive, resps,
                 polls, done, retAt, lastSleep, baseIds, grew>>

\* lines 90-97 and 111-117: the baseline count is taken, send_message leaves.
BaselineReturn ==
  /\ pc = "baseline_wait" /\ Returned("list")
  /\ IF Raises(http.outcome)
       THEN /\ Raise(http.outcome)
            /\ UNCHANGED <<initial_count, current_count, reqs, baseIds>>
       ELSE /\ IF phase = 1
                 THEN initial_count' = Len(http.body) /\ UNCHANGED current_count
                 ELSE current_count' = Len(http.body) /\ UNCHANGED initial_count
            /\ baseIds' = {http.body[i].id : i \in DOMAIN http.body}
            /\ out' = out \cup {"sending"}
            /\ Issue("send", "send", phase, 0)
            /\ pc' = "send_wait"
            /\ UNCHANGED exitCode
  /\ UNCHANGED <<now, timeout, phase, wake, session_id, artifact1, artifact2, start,
                 artifacts, success, store, sessionLive, resps, polls, done, retAt,
                 lastSleep, grew>>

\* lines 38-41, 51-52: the message is sent; wait_for_new_artifact starts and
\* reads the clock into start.
SendReturn ==
  /\ pc = "send_wait" /\ Returned("send")
  /\ IF Raises(http.outcome)
       THEN /\ Raise(http.outcome)
            /\ UNCHANGED <<start, artifacts, grew>>
       ELSE /\ out' = out \cup {"sent", "waiting"}
            /\ start' = now
            /\ artifacts' = <<>>
            /\ grew' = (Len(store) > Baseline(phase))
            /\ http' = Idle
            /\ pc' = "loop"
            /\ UNCHANGED exitCode
  /\ UNCHANGED <<now, timeout, phase, wake, session_id, initial_count, current_count,
                 artifact1, artifact2, success, store, sessionLive, reqs, resps,
                 polls, done, retAt, lastSleep, baseIds>>

\* lines 101-123 and 126-145: what test_generation_loop does with the value
\* wait_for_new_artifact returned; printed holds the lines the probe printed
\* on its way out.  A falsy result ends the run through "return False" and
\* sys.exit (line 161); artifact1 leads to the brief pause of line 109;
\* artifact2 leads to the results, the summary and get_messages.
AfterProbe(res, printed) ==
  /\ IF phase = 1
       THEN artifact1' = res /\ UNCHANGED artifact2
       ELSE artifact2' = res /\ UNCHANGED artifact1
  /\ done' = IF res = None THEN "none" ELSE "item"
  /\ retAt' = now
  /\ IF Falsy(res)
       THEN /\ out' = out \cup printed \cup {IF phase = 1 THEN "failed_generation"
                                                          ELSE "failed_modification"}
            /\ success' = "False"
            /\ exitCode' = {ExitStatus(FALSE)}
            /\ pc' = "exited"
            /\ http' = Idle
            /\ UNCHANGED <<wake, reqs>>
       ELSE IF phase = 1
         THEN /\ out' = out \cup printed \cup {"initial_id", "step2"}
              /\ wake' = now
              /\ pc' = "pause"
              /\ http' = Idle
              /\ UNCHANGED <<success, exitCode, reqs>>
         ELSE /\ out' = out \cup printed \cup {"results"} \cup ResultLines(artifact1, res)
                          \cup {"summary", "conversation"}
              /\ Issue("msgs", "msgs", phase, 0)
              /\ pc' = "msgs_wait"
              /\ UNCHANGED <<success, exitCode, wake>>

\* lines 54-55 and 69-70: the loop test.  While time remains the next fetch
\* leaves; otherwise the probe prints the timeout and returns None.
LoopTest(d) ==
  /\ pc = "loop"
  /\ IF LoopCond(now, start)
       THEN /\ Issue("list", "poll", phase, d)
            /\ pc' = "poll_wait"
            /\ UNCHANGED <<artifact1, artifact2, done, retAt, out, success, exitCode, wake>>
       ELSE AfterProbe(None, {"timeout"})
  /\ UNCHANGED <<now, timeout, phase, session_id, initial_count, current_count, start,
                 artifacts, store, sessionLive, resps, polls, lastSleep, baseIds, grew>>

\* lines 55-65: the fetch returns; either the list has grown and its first
\* element is returned, or the probe goes to sleep for the poll interval.
PollReturn(s) ==
  /\ pc = "poll_wait" /\ Returned("list")
  /\ IF Raises(http.outcome)
       THEN /\ Raise(http.outcome)
            /\ UNCHANGED <<artifacts, polls, artifact1, artifact2, done, retAt, success,
                           wake, lastSleep, reqs>>
       ELSE /\ artifacts' = http.body
            /\ polls' = Append(polls,
                           [at |-> http.at, end |-> now, len |-> Len(http.body),
                            head |-> IF Len(http.body) > 0 THEN http.body[1].id ELSE 0])
            /\ IF Grown(http.body, Baseline(phase))
                 THEN /\ AfterProbe(NewArtifact(http.body),
                            {"new_artifact"} \cup
                              (IF NewArtifact(http.body).src # 0 THEN {"source"} ELSE {}))
                      /\ UNCHANGED lastSleep
                 ELSE /\ wake' = now + s
                      /\ lastSleep' = s
                      /\ pc' = "sleeping"
                      /\ http' = Idle
                      /\ UNCHANGED <<artifact1, artifact2, done, retAt, out, success,
                                     exitCode, reqs>>
  /\ UNCHANGED <<now, timeout, phase, session_id, initial_count, current_count, start,
                 store, sessionLive, resps, baseIds, grew>>

\* lines 65-67: time.sleep(2) is over; the progress line is printed.
SleepWake ==
  /\ pc = "sleeping" /\ now = wake
  /\ out' = out \cup {"progress"}
  /\ pc' = "loop"
  /\ UNCHANGED <<now, timeout, phase, http, wake, session_id, initial_count,
                 current_count, artifact1, artifact2, start, artifacts, success,
                 exitCode, store, sessionLive, reqs, resps, polls, done, retAt,
                 lastSleep, baseIds, grew>>

\* lines 109-111: the brief pause is over (the script does not read the clock
\* around it, so no time is counted); the second baseline fetch leaves.  The
\* history of the finished probe is cleared.  (PauseWakeSkipBaseline: the
\* variant that reuses the old count and sends the message at once.)
PauseWakeSkipBaseline ==
  /\ pc = "pause" /\ now = wake
  /\ phase' = 2
  /\ Issue("send", "send", 2, 0)
  /\ pc' = "send_wait"
  /\ polls' = <<>> /\ done' = "no" /\ retAt' = 0 /\ lastSleep' = 0 /\ grew' = FALSE
  /\ UNCHANGED <<now, timeout, wake, session_id, initial_count, current_count,
                 artifact1, artifact2, start, artifacts, success, exitCode, out, store,
                 sessionLive, resps, baseIds>>
PauseWake ==
  /\ pc = "pause" /\ now = wake
  /\ phase' = 2
  /\ Issue("list", "baseline", 2, 0)
  /\ pc' = "baseline_wait"
  /\ polls' = <<>> /\ done' = "no" /\ retAt' = 0 /\ lastSleep' = 0 /\ grew' = FALSE
  /\ UNCHANGED <<now, timeout, wake, session_id, initial_count, current_count,
                 artifact1, artifact2, start, artifacts, success, exitCode, out, store,
                 sessionLive, resps, baseIds>>

\* lines 145-156 and 160-161: the conversation is printed, the test returns
\* True and the process exits.
MsgsReturn ==
  /\ pc = "msgs_wait" /\ Returned("msgs")
  /\ IF Raises(http.outcome)
       THEN /\ Raise(http.outcome)
            /\ UNCHANGED success
       ELSE /\ out' = out \cup {"messages", "complete"}
            /\ success' = "True"
            /\ exitCode' = {ExitStatus(TRUE)}
            /\ pc' = "exited"
            /\ http' = Idle
  /\ UNCHANGED <<now, timeout, phase, wake, session_id, initial_count, current_count,
                 artifact1, artifact2, start, artifacts, store, sessionLive, reqs,
                 resps, polls, done, retAt, lastSleep, baseIds, grew>>

\* ---- the environment: the service and the clock ----

\* the service answers the request in flight at some instant of the call:
\* with a body (the artifact list as it is at that instant), or with a
\* failure (connection error, non-success status, undecodable body).
ServiceRespond(o) ==
  /\ http.state = "sent"
  /\ http' = [http EXCEPT !.state = "responded", !.outcome = o,
                          !.body = IF o = "ok" /\ http.kind = "list" THEN store ELSE <<>>]
  /\ resps' = Append(resps, o)
  /\ sessionLive' = (sessionLive \/ (http.kind = "create" /\ o = "ok"))
  /\ UNCHANGED <<now, timeout, pc, phase, wake, session_id, initial_count,
                 current_count, artifact1, artifact2, start, artifacts, success,
                 exitCode, out, store, reqs, polls, done, retAt, lastSleep, baseIds, grew>>

\* the service appends an artifact to the session at any moment; the list is
\* kept newest first and never shrinks.  sends records how many messages the
\* script had issued when the artifact was made.
AddArtifact(src) ==
  /\ sessionLive /\ pc # "exited"
  /\ Len(store) < MaxArtifacts
  /\ src \in 0 .. Len(store)
  /\ store' = <<[id |-> Len(store) + 1, src |-> src,
                  sends |-> Cardinality({i \in DOMAIN reqs : reqs[i].kind = "send"})]>>
              \o store
  /\ grew' = (grew \/ (/\ pc \in {"loop", "poll_wait", "sleeping"}
                       /\ Len(store) + 1 > Baseline(phase)
                       /\ now < start + timeout))
  /\ UNCHANGED <<now, timeout, pc, phase, http, wake, session_id, initial_count,
                 current_count, artifact1, artifact2, start, artifacts, success,
                 exitCode, out, sessionLive, reqs, resps, polls, done, retAt,
                 lastSleep, baseIds>>

\* time passes only while the script is blocked in a call or in a sleep.
Tick ==
  /\ \/ http.state # "idle" /\ now < http.until
     \/ pc = "sleeping" /\ now < wake
  /\ now' = now + 1
  /\ UNCHANGED <<timeout, pc, phase, http, wake, session_id, initial_count,
                 current_count, artifact1, artifact2, start, artifacts, success,
                 exitCode, out, store, sessionLive, reqs, resps, polls, done, retAt,
                 lastSleep, baseIds, grew>>

Init ==
  /\ now = 0
  /\ timeout \in 1 .. MaxTimeout
  /\ pc = "create"
  /\ phase = 1
  /\ http = Idle
  /\ wake = 0
  /\ session_id = 0
  /\ initial_count = 0
  /\ current_count = 0
  /\ artifact1 = None
  /\ artifact2 = None
  /\ start = 0
  /\ artifacts = <<>>
  /\ success = "unset"
  /\ exitCode = {}
  /\ out = {}
  /\ store = <<>>
  /\ sessionLive = FALSE
  /\ reqs = <<>>
  /\ resps = <<>>
  /\ polls = <<>>
  /\ done = "no"
  /\ retAt = 0
  /\ lastSleep = 0
  /\ baseIds = {}
  /\ grew = FALSE

Next ==
  \/ CreateSessionCall
  \/ CreateSessionReturn
  \/ BaselineReturn
  \/ SendReturn
  \/ \E d \in CallDurs : LoopTest(d)
  \/ \E s \in SleepDurs : PollReturn(s)
  \/ SleepWake
  \/ PauseWake
  \/ MsgsReturn
  \/ \E o \in Outcomes : ServiceRespond(o)
  \/ \E src \in 0 .. MaxArtifacts : AddArtifact(src)
  \/ Tick

Spec == Init /\ [][Next]_vars

\* ---- the algorithm of the specification (section 4.1), for comparison ----

\* deadline = now() + timeout; loop: fetch; if len(items) > baseline return
\* items[0]; if now() >= deadline return NOT_FOUND; sleep.  slots are the
\* fetches it would make, in order: the instant each leaves (at) and returns
\* (end) and the length it sees.  The result is the set of instants at which
\* it fetched and how it ended.
RECURSIVE SpecRun(_, _, _, _, _)
SpecRun(slots, i, acc, base, deadline) ==
  IF i > Len(slots)
    THEN [fetches |-> acc, outcome |-> "no"]
    ELSE LET s == slots[i]
             seen == acc \cup {s.at}
         IN IF s.len > base THEN [fetches |-> seen, outcome |-> "item"]
            ELSE IF s.end >= deadline THEN [fetches |-> seen, outcome |-> "none"]
            ELSE SpecRun(slots, i + 1, seen, base, deadline)

\* ---- what the formulas below talk about ----

\* the value the probe of the current phase returned.
ProbeResult == IF phase = 1 THEN artifact1 ELSE artifact2

\* the requests of one kind issued so far.
ReqsOf(site, ph) == {i \in DOMAIN reqs : reqs[i].site = site /\ reqs[i].phase = ph}

\* no call of the run has raised.
NoCallRaised == \A i \in DOMAIN resps : resps[i] = "ok"

\* the last fetch of the current probe took this long.
LastFetchDur == IF polls = <<>> THEN 0 ELSE polls[Len(polls)].end - polls[Len(polls)].at

\* the request that may follow request a in a run.
MayFollow(a, b) ==
  \/ a.site = "create" /\ b.site = "baseline" /\ b.phase = 1
  \/ a.site = "baseline" /\ b.site = "send" /\ b.phase = a.phase
  \/ a.site = "send" /\ b.site = "poll" /\ b.phase = a.phase
  \/ a.site = "poll" /\ b.site = "poll" /\ b.phase = a.phase
  \/ a.site = "poll" /\ a.phase = 1 /\ b.site = "baseline" /\ b.phase = 2
  \/ a.site = "poll" /\ a.phase = 2 /\ b.site = "msgs"

\* ---- claims ----

\* C1: the exit status is 0 exactly when both probes returned an artifact and
\* no call raised; every other finished run has status 1; a run has an exit
\* status exactly when it has ended.
ExitStatusContract ==
  /\ exitCode \in {{}, {0}, {1}}
  /\ (pc = "exited") <=> (exitCode # {})
  /\ (exitCode = {0}) <=>
       (pc = "exited" /\ artifact1 # None /\ artifact2 # None /\ NoCallRaised)
  /\ (pc = "exited" /\ ~(artifact1 # None /\ artifact2 # None /\ NoCallRaised))
       => exitCode = {1}

\* a run in which both phases succeeded has ended.
ExitStatusWitness ==
  pc = "exited" /\ artifact1 # None /\ artifact2 # None /\ NoCallRaised /\ exitCode = {0}

\* C2: if the collection grows beyond the baseline at some moment before the
\* deadline (start + timeout), the probe does not return None.
GrowthBeforeDeadlineIsFound == (done = "none") => ~grew

\* C3 (as stated): a probe that returns None does so after at least timeout
\* and less than timeout + one poll interval, whatever the fetches take.
TimeoutWithinOnePollInterval ==
  (done = "none") =>
     (retAt - start >= timeout /\ retAt - start < timeout + PollInterval)

\* C3 (amended): a probe that sees no growth makes at most
\* ceil(timeout / poll interval) fetches and returns None after at least
\* timeout and less than timeout + the length of its last fetch + the length
\* of its last sleep.
TimeoutWithinLastFetchAndSleep ==
  /\ (Len(polls) - 1) * PollInterval < timeout
  /\ (done = "none") =>
        /\ retAt - start >= timeout
        /\ retAt - start < timeout + LastFetchDur + lastSleep

\* a probe timed out a whole poll interval or more after its deadline.
TimeoutLateWitness ==
  done = "none" /\ retAt - start >= timeout + PollInterval /\ NoCallRaised

\* C4: the probe returns an item only after a successful fetch of this
\* invocation that was longer than the baseline; the item is element 0 of that
\* very list; no earlier fetch had shown growth and that fetch was the last
\* request of the probe.
ItemOnlyFromGrowingFetch ==
  (done = "item") =>
     LET n == Len(polls) IN
       /\ n >= 1
       /\ polls[n].len > Baseline(phase)
       /\ artifacts # <<>> /\ Len(artifacts) = polls[n].len
       /\ ProbeResult = artifacts[1]
       /\ ProbeResult.id = polls[n].head
       /\ \A i \in 1 .. (n - 1) : polls[i].len <= Baseline(phase)
       /\ Cardinality(ReqsOf("poll", phase)) = n

\* a probe returned an item at its second or later fetch, with a non-empty
\* baseline.
ItemWitness ==
  done = "item" /\ Len(polls) >= 2 /\ Baseline(phase) >= 1

\* C5: a call that fails with a transport error or a non-success status is
\* the last request of the run, which ends with status 1 as soon as the call
\* returns.
AbortOnFirstFailure ==
  \A i \in DOMAIN resps :
     resps[i] \in {"conn", "http"} =>
        /\ Len(reqs) = i
        /\ http.state = "idle" => (pc = "exited" /\ exitCode = {1})

\* a poll of the modification probe got a non-success status and the run ended.
AbortWitness ==
  /\ pc = "exited" /\ resps # <<>> /\ resps[Len(resps)] = "http"
  /\ reqs[Len(reqs)].site = "poll" /\ reqs[Len(reqs)].phase = 2
  /\ Len(polls) >= 1

\* C6: the run ends in success only if artifact2's sourceArtifactId is
\* artifact1's id.
SuccessOnlyIfSourceLinked ==
  (success = "True" \/ exitCode = {0}) => artifact2.src = artifact1.id

\* C7 (as stated): after a probe timed out the run has printed the timeout,
\* no connectivity or exception report, and the results and summary, and ends
\* with status 1 by returning False.
TimeoutReportsResults ==
  (done = "none") =>
     /\ pc = "exited" /\ exitCode = {1} /\ success = "False"
     /\ "timeout" \in out
     /\ out \cap {"conn_error", "error", "traceback"} = {}
     /\ {"results", "summary"} \subseteq out

\* C7 (amended): after a probe timed out the run has printed the timeout and
\* the phase that failed, no connectivity or exception report and none of the
\* results, summary or conversation; it made no request after the probe's
\* last poll and ends with status 1 by returning False.
TimeoutEndsRunWithoutResults ==
  (done = "none") =>
     /\ pc = "exited" /\ exitCode = {1} /\ success = "False"
     /\ "timeout" \in out
     /\ (IF phase = 1 THEN "failed_generation" ELSE "failed_modification") \in out
     /\ out \cap {"conn_error", "error", "traceback"} = {}
     /\ out \cap {"results", "summary", "conversation", "complete"} = {}
     /\ reqs[Len(reqs)].site = "poll" /\ reqs[Len(reqs)].phase = phase
     /\ NoCallRaised

\* the modification probe timed out after the generation probe had succeeded.
TimeoutWitness ==
  done = "none" /\ phase = 2 /\ artifact1 # None /\ pc = "exited"

\* C8: the loop of the script fetches at the same instants as the algorithm
\* of the specification and ends the same way.  When the script returns None
\* the algorithm's next fetch would leave at that instant and see the store
\* as it is then.
LoopMatchesSpecifiedAlgorithm ==
  (done # "no") =>
     LET slots == IF done = "none"
                    THEN Append(polls, [at |-> retAt, end |-> retAt,
                                        len |-> Len(store), head |-> 0])
                    ELSE polls
         r == SpecRun(slots, 1, {}, Baseline(phase), start + timeout)
     IN /\ r.fetches = {polls[i].at : i \in DOMAIN polls}
        /\ r.outcome = done

\* C9: the requests are issued one at a time in the order create, then per
\* phase baseline, send, polls, then messages; a phase's message follows its
\* baseline; the second message is sent only with artifact1 in hand; at most
\* two messages are sent.
RequestsInOrder ==
  /\ reqs # <<>> => reqs[1].site = "create"
  /\ \A i \in 2 .. Len(reqs) : MayFollow(reqs[i - 1], reqs[i])
  /\ Len(resps) \in {Len(reqs) - 1, Len(reqs)}
  /\ (http.state = "sent") <=> (Len(resps) = Len(reqs) - 1)
  /\ \A ph \in {1, 2} : Cardinality(ReqsOf("send", ph)) <= 1
                       /\ Cardinality(ReqsOf("baseline", ph)) <= 1
  /\ ReqsOf("send", 2) # {} => artifact1 # None
  /\ ReqsOf("msgs", 1) \cup ReqsOf("msgs", 2) # {} => artifact2 # None

\* the whole sequence was issued: the run got as far as the messages.
RequestsWitness ==
  /\ reqs # <<>> /\ reqs[Len(reqs)].site = "msgs"
  /\ Cardinality(ReqsOf("poll", 1)) >= 2 /\ Cardinality(ReqsOf("poll", 2)) >= 2

\* C10 (as stated): the artifact a probe returns was not in the phase's
\* baseline list; artifact2 differs from artifact1 and was created after the
\* second message was sent.
ResultCreatedAfterMessage ==
  (done = "item") =>
     /\ ProbeResult.id \notin baseIds
     /\ phase = 2 => (artifact2.id # artifact1.id /\ artifact2.sends = 2)

\* C10 (amended): the artifact a probe returns was not in the phase's
\* baseline list and is newer than everything in it; artifact2 differs from
\* artifact1.
ResultNotInBaseline ==
  (done = "item") =>
     /\ ProbeResult.id \notin baseIds
     /\ \A b \in baseIds : ProbeResult.id > b
     /\ Cardinality(baseIds) = Baseline(phase)
     /\ phase = 2 => (artifact2.id # artifact1.id /\ artifact1.id \in baseIds)

\* the modification probe returned an artifact made before the second message
\* was sent, with a non-empty baseline.
ResultWitness ==
  done = "item" /\ phase = 2 /\ artifact2.sends < 2 /\ baseIds # {}

====
